---- MODULE Spec2Model ----
(***************************************************************************)
(* State-machine model of the virtio-net driver core in src/net/virtio.cc: *)
(* the split-ring engine (class vring), the TX adapter (txq::post) and the *)
(* RX adapter (rxq::prepare_buffers), together with the host side of the   *)
(* shared rings.  One vring instance is modelled; the variable q says      *)
(* which adapter drives it.                                                *)
(***************************************************************************)
EXTENDS Integers, Sequences, FiniteSets, TLC

\* ------------------------------------------------------------------ sizes

\* _config.size: the ring size (option virtio-ring-size, a power of two).
Size == 4

\* Number of packets the stack hands to send() in one behaviour.
MaxPkts == 2
\* Largest number of payload fragments of a packet handed to send().
MaxFrags == 2
\* Byte length of one TX payload fragment.
FragLen == 64
\* Payload fragments of a packet whose chain is longer than the ring.
BigFrags == 6
\* How far ahead of its own position the host may place avail_event.
MaxAhead == 1
\* Number of malformed used elements a host that breaks the protocol writes.
MaxBad == 1
\* Number of receive buffers the host fills in one behaviour.
MaxRxBufs == 3

\* sizeof(net_hdr_mrg), sizeof(net_hdr)
HdrLenMrg == 12
HdrLen == 10
BufLen == 4096

\* uint16_t arithmetic
U16(x) == (x + 131072) % 65536

RECURSIVE BitAnd(_, _)
BitAnd(a, b) ==
    IF a = 0 \/ b = 0 THEN 0
    ELSE (a % 2) * (b % 2) + 2 * BitAnd(a \div 2, b \div 2)

\* vring::mask, vring::masked
mask == Size - 1
masked(idx) == BitAnd(idx, mask)

Descs == 0 .. (Size - 1)

VARIABLES
    q,              \* "tx" or "rx": the adapter that owns this vring
    event_index,    \* _config.event_index
    header_len,     \* _dev._header_len
    vring,          \* driver-side state of the vring and of the reactor
    avail_flags,    \* _avail._shared->_flags
    avail_idx,      \* _avail._shared->_idx
    used_event,     \* *_used_event
    used_flags,     \* _used._shared->_flags
    used_idx,       \* _used._shared->_idx
    used_elements,  \* _used._shared->_used_elements
    avail_event,    \* *_avail_event
    notified,       \* _notified eventfd: a host notification is pending
    last_kick,      \* what the most recent call of kick() saw and did
    pc,             \* position of the reactor thread
    ctx,            \* the task the reactor thread is running
    used_head,      \* do_complete's local used_head
    pkts,           \* per packet handed to send(): progress of the send
    next_pkt,       \* number of send() calls so far
    live,           \* chains installed in the available ring, not reclaimed
    rx,             \* rxq and device RX state
    host,           \* the host's private state
    txhdr           \* txq::post's header: hw_features, offload_info, vhdr

vars == << q, event_index, header_len, vring, avail_flags, avail_idx,
           used_event, used_flags, used_idx, used_elements, avail_event,
           notified, last_kick, pc, ctx, used_head, pkts, next_pkt, live,
           rx, host, txhdr >>

\* What no step of the rings changes: the negotiated configuration, and the
\* virtio-net header of txq::post, which only the host reads.
cfg == << q, event_index, header_len, txhdr >>
avail_mem == << avail_flags, avail_idx, used_event >>
used_mem == << used_flags, used_idx, used_elements, avail_event >>

\* ------------------------------------------------------------ constants

\* VRING_AVAIL_F_NO_INTERRUPT, used_layout::no_notify
VRING_AVAIL_F_NO_INTERRUPT == 1
VRING_USED_F_NO_NOTIFY == 1

\* A promise<size_t> of the _completions array or of a vring::buffer:
\* "none" has no continuation attached, "tx"/"rx" carry the continuation
\* attached by txq::post / rxq::prepare_buffers, "set" has been fulfilled.
NoPromise == [k |-> "none", id |-> 0]
SetPromise == [k |-> "set", id |-> 0]

\* ------------------------------------------------------------ semaphore

\* semaphore::signal's wake-up loop: waiters are served in FIFO order, the
\* permits are taken when the waiter is woken and its continuation is queued.
RECURSIVE SemWake(_)
SemWake(s) ==
    IF s.waiters # << >> /\ Head(s.waiters).nr <= s.sem
    THEN SemWake([s EXCEPT !.sem = @ - Head(s.waiters).nr,
                           !.tasks = Append(@, [k |-> Head(s.waiters).k,
                                                id |-> Head(s.waiters).id,
                                                len |-> 0]),
                           !.waiters = Tail(@)])
    ELSE s

\* semaphore::signal(1)
SemSignal(s) == SemWake([s EXCEPT !.sem = @ + 1])

\* semaphore::wait(nr) and try_wait(nr) succeed at once in this case
SemReady(s, nr) == s.sem >= nr /\ s.waiters = << >>

\* ------------------------------------------------------------ descriptor pool

\* free_desc without the signal of the semaphore
FreeDescNoSignal(s, id) ==
    [s EXCEPT !.descs[id].next = U16(s.free_desc), !.free_desc = id]

\* vring::free_desc
FreeDesc(s, id) ==
    SemSignal([s EXCEPT !.descs[id].next = U16(s.free_desc),
                        !.free_desc = id])

\* allocate_desc that leaves _free_desc where it is
AllocateDescNoAdvance(s) ==
    IF s.free_desc \notin Descs
    THEN [s |-> [s EXCEPT !.fault = "assert"], desc |-> 0]
    ELSE [s |-> s, desc |-> s.free_desc]

\* vring::allocate_desc: [s |-> the state after, desc |-> the index returned]
AllocateDesc(s) ==
    IF s.free_desc = -1
    THEN [s |-> [s EXCEPT !.fault = "assert"], desc |-> 0]
    ELSE IF s.free_desc \notin Descs
    THEN [s |-> [s EXCEPT !.fault = "oob"], desc |-> 0]
    ELSE [s |-> [s EXCEPT !.free_desc = s.descs[s.free_desc].next],
          desc |-> s.free_desc]

\* The vring as its constructor finds it: zeroed ring memory, empty pool.
Blank ==
    [descs |-> [i \in Descs |-> [next |-> 0, has_next |-> FALSE,
                                 writeable |-> FALSE, paddr |-> 0, len |-> 0]],
     ring |-> [i \in Descs |-> 0],
     free_desc |-> -1,
     completions |-> [i \in Descs |-> NoPromise],
     head |-> 0, added |-> 0, tail |-> 0,
     sem |-> 0, waiters |-> << >>, tasks |-> << >>,
     fault |-> "none"]

\* vring::setup
RECURSIVE SetupFrom(_, _)
SetupFrom(s, i) == IF i = Size THEN s ELSE SetupFrom(FreeDesc(s, i), i + 1)
Setup == SetupFrom(Blank, 0)

\* ------------------------------------------------------------ vring::post

\* the inner loop over the chain first buffer first
RECURSIVE BuildChainForward(_, _, _, _, _)
BuildChainForward(s, bc, i, has_prev, prev_desc_idx) ==
    IF i = 0 THEN [s |-> s, desc_head |-> prev_desc_idx]
    ELSE LET a == AllocateDesc(s)
             d == a.desc
             b == bc[Len(bc) + 1 - i]
             s1 == [a.s EXCEPT !.descs[d] = [next |-> U16(prev_desc_idx),
                                             has_next |-> has_prev,
                                             writeable |-> b.writeable,
                                             paddr |-> b.addr,
                                             len |-> b.len],
                               !.completions[d] = b.completed]
         IN  BuildChainForward(s1, bc, i - 1, TRUE, d)

\* The inner loop of vring::post over one buffer chain, last buffer first.
RECURSIVE BuildChain(_, _, _, _, _)
BuildChain(s, bc, i, has_prev, prev_desc_idx) ==
    IF i = 0 THEN [s |-> s, desc_head |-> prev_desc_idx]
    ELSE LET a == AllocateDesc(s)
             d == a.desc
             s1 == [a.s EXCEPT !.descs[d] = [next |-> U16(prev_desc_idx),
                                             has_next |-> has_prev,
                                             writeable |-> bc[i].writeable,
                                             paddr |-> bc[i].addr,
                                             len |-> bc[i].len],
                               !.completions[d] = bc[i].completed]
         IN  BuildChain(s1, bc, i - 1, TRUE, d)

\* post that installs every chain in the slot after the one of _head
PostChainSlotAhead(s, bc) ==
    LET b == BuildChain(s, bc, Len(bc), FALSE, 0)
    IN  [b.s EXCEPT !.ring[masked(U16(b.s.head + 2))] = b.desc_head,
                    !.head = U16(@ + 1),
                    !.added = U16(@ + 1)]

\* post with the ring slot taken after the increment of _head
PostChainPreIncrement(s, bc) ==
    LET b == BuildChain(s, bc, Len(bc), FALSE, 0)
    IN  [b.s EXCEPT !.ring[masked(U16(b.s.head + 1))] = b.desc_head,
                    !.head = U16(@ + 1),
                    !.added = U16(@ + 1)]

\* One iteration of the for_each of vring::post: build the chain and install
\* its head in the available ring.
PostChain(s, bc) ==
    LET b == BuildChain(s, bc, Len(bc), FALSE, 0)
    IN  [b.s EXCEPT !.ring[masked(b.s.head)] = b.desc_head,
                    !.head = U16(@ + 1),
                    !.added = U16(@ + 1)]

RECURSIVE PostChains(_, _)
PostChains(s, chains) ==
    IF chains = << >> THEN s
    ELSE PostChains(PostChain(s, Head(chains)), Tail(chains))

\* The free list, from _free_desc along _next (at most fuel entries).
RECURSIVE FreeWalk(_, _, _)
FreeWalk(s, id, fuel) ==
    IF fuel = 0 \/ id \notin Descs THEN << >>
    ELSE << id >> \o FreeWalk(s, s.descs[id].next, fuel - 1)
FreeList(s) == FreeWalk(s, s.free_desc, Size + 1)

Reverse(sq) == [i \in 1 .. Len(sq) |-> sq[Len(sq) + 1 - i]]
SeqSet(sq) == {sq[i] : i \in 1 .. Len(sq)}

\* The record kept in `live` for each chain a post installs: its position
\* seq in the available ring (the value of _avail._head it is installed
\* at), the descriptors the pool hands out for it (the next n of the free
\* list fl, the head being the one taken last) and the owner of the payload.
RECURSIVE LiveOf(_, _, _, _)
LiveOf(fl, seq, chains, owners) ==
    IF chains = << >> THEN {}
    ELSE LET n == IF Len(Head(chains)) <= Len(fl)
                  THEN Len(Head(chains)) ELSE Len(fl)
             ds == Reverse(SubSeq(fl, 1, n))
         IN  {[head |-> IF n = 0 THEN -1 ELSE ds[1], ds |-> ds, seq |-> seq,
               owner |-> Head(owners), st |-> "built"]}
             \cup LiveOf(SubSeq(fl, n + 1, Len(fl)), U16(seq + 1),
                         Tail(chains), Tail(owners))

\* ------------------------------------------------------------ vring::kick

\* need_kick without the - 1
NeedKickOffByOne(idx, event, added) == U16(idx - event) < added

\* need_kick of vring::kick when event_index is negotiated
NeedKick(idx, event, added) == U16(idx - event - 1) < added

\* kick without the test of _avail_added_since_kick against 32767
KickResultNoDefensive(ev, idx, event, flags, added) ==
    IF ~ev /\ BitAnd(flags, VRING_USED_F_NO_NOTIFY) # 0
    THEN [signal |-> FALSE, added |-> added]
    ELSE LET need_kick == IF ev THEN NeedKick(idx, event, added) ELSE TRUE
         IN  IF need_kick
             THEN [signal |-> TRUE, added |-> 0]
             ELSE [signal |-> FALSE, added |-> added]

\* kick that leaves _avail_added_since_kick as it is after signalling
KickResultNoReset(ev, idx, event, flags, added) ==
    IF ~ev /\ BitAnd(flags, VRING_USED_F_NO_NOTIFY) # 0
    THEN [signal |-> FALSE, added |-> added]
    ELSE LET need_kick == IF ev THEN NeedKick(idx, event, added) ELSE TRUE
         IN  [signal |-> need_kick \/ added >= 65535 \div 2,
              added |-> added]

\* vring::kick: [signal |-> _kick.signal(1) is called, added |-> the value
\* of _avail_added_since_kick afterwards]
KickResult(ev, idx, event, flags, added) ==
    IF ~ev /\ BitAnd(flags, VRING_USED_F_NO_NOTIFY) # 0
    THEN [signal |-> FALSE, added |-> added]
    ELSE LET need_kick == IF ev THEN NeedKick(idx, event, added) ELSE TRUE
         IN  IF need_kick \/ added >= 65535 \div 2
             THEN [signal |-> TRUE, added |-> 0]
             ELSE [signal |-> FALSE, added |-> added]

\* ------------------------------------------------------------ txq::post

\* sizeof(eth_hdr)
EthHdrLen == 14

\* net_hdr::gso_type
gso_none == 0
gso_tcpv4 == 1
gso_udp == 3

\* net_hdr_mrg vhdr = {}
ZeroHdr == [needs_csum |-> 0, gso_type |-> gso_none, hdr_len |-> 0,
            gso_size |-> 0, csum_start |-> 0, csum_offset |-> 0]

\* segmentation also of a packet of exactly mtu + eth_hdr_len bytes
SegmentsAtMtu(on, len, mtu) == on /\ len >= mtu + EthHdrLen

\* hw_features().tx_tso (tx_ufo) && p.len() > mtu + eth_hdr_len
Segments(on, len, mtu) == on /\ len > mtu + EthHdrLen

\* the header length without the IP header
HdrLenNoIp(ip_hdr_len, l4_hdr_len) == U16(EthHdrLen + l4_hdr_len)

\* vhdr.hdr_len: sum of Ethernet, IP and TCP (UDP) header size
GsoHdrLen(ip_hdr_len, l4_hdr_len) == U16(EthHdrLen + ip_hdr_len + l4_hdr_len)

\* the segment size that leaves room for the Ethernet header too
GsoSizeLessEth(mtu, ip_hdr_len, l4_hdr_len) ==
    U16(mtu - EthHdrLen - ip_hdr_len - l4_hdr_len)

\* vhdr.gso_size: maximum segment size of the packet after the offload
GsoSize(mtu, ip_hdr_len, l4_hdr_len) == U16(mtu - ip_hdr_len - l4_hdr_len)

\* The header txq::post builds for a packet of len bytes with offload
\* info oi on a device with features hw.
Vhdr(hw, oi, len) ==
    IF ~hw.tx_csum_offload THEN ZeroHdr
    ELSE IF oi.protocol = "tcp"
    THEN LET v == [ZeroHdr EXCEPT
                     !.needs_csum = 1,
                     !.csum_start = U16(EthHdrLen + oi.ip_hdr_len),
                     !.csum_offset = 16]
         IN  IF Segments(hw.tx_tso, len, hw.mtu)
             THEN [v EXCEPT
                     !.gso_type = gso_tcpv4,
                     !.hdr_len = GsoHdrLen(oi.ip_hdr_len, oi.tcp_hdr_len),
                     !.gso_size = GsoSize(hw.mtu, oi.ip_hdr_len,
                                          oi.tcp_hdr_len)]
             ELSE v
    ELSE IF oi.protocol = "udp"
    THEN LET v == [ZeroHdr EXCEPT
                     !.needs_csum = 1,
                     !.csum_start = U16(EthHdrLen + oi.ip_hdr_len),
                     !.csum_offset = 6]
         IN  IF Segments(hw.tx_ufo, len, hw.mtu)
             THEN [v EXCEPT
                     !.gso_type = gso_udp,
                     !.hdr_len = GsoHdrLen(oi.ip_hdr_len, oi.udp_hdr_len),
                     !.gso_size = GsoSize(hw.mtu, oi.ip_hdr_len,
                                          oi.udp_hdr_len)]
             ELSE v
    ELSE ZeroHdr

\* txq::post up to "prepend virtio-net header", for the features and the
\* packet the initial state chose.
BuildHeader ==
    /\ ~txhdr.built
    /\ txhdr' = [txhdr EXCEPT !.built = TRUE,
                              !.vhdr = Vhdr(txhdr.hw, txhdr.oi, txhdr.len)]
    /\ UNCHANGED << q, event_index, header_len, vring, avail_mem, used_mem,
                    notified, last_kick, pc, ctx, used_head, pkts, next_pkt,
                    live, rx, host >>

\* the chain without the packet-destruction continuation
TxChainNoCompletion(p, nr, hlen) ==
    [i \in 1 .. nr |->
        [addr |-> 16 * p + (i - 1),
         len |-> IF i = 1 THEN hlen ELSE FragLen,
         writeable |-> FALSE,
         completed |-> NoPromise]]

\* The buffer chain txq::post builds for packet p with nr fragments (the
\* virtio-net header first): read-only buffers, the packet-destruction
\* continuation attached to the first one.
TxChain(p, nr, hlen) ==
    [i \in 1 .. nr |->
        [addr |-> 16 * p + (i - 1),
         len |-> IF i = 1 THEN hlen ELSE FragLen,
         writeable |-> FALSE,
         completed |-> IF i = 1 THEN [k |-> "tx", id |-> p] ELSE NoPromise]]

\* The continuation txq::post attaches to available_descriptors().wait(nr):
\* builds the chain and calls vring::post, whose for_each runs here; the
\* store of avail.idx, the kick and do_complete follow as separate steps.
TxPostLambda(s, p, nr) ==
    /\ vring' = PostChains(s, << TxChain(p, nr, header_len) >>)
    /\ live' = live \cup LiveOf(FreeList(s), s.head,
                                << TxChain(p, nr, header_len) >>, << p >>)
    /\ pc' = IF vring'.fault = "none" THEN "publish" ELSE "aborted"
    /\ ctx' = [k |-> "send", id |-> p]

\* q.nr_frags() of packet q = packet(fragment{&vhdr, _header_len}, p) for
\* a packet p of n fragments: the header becomes the first fragment.
PrependedFrags(n) == n + 1

\* txq::post that posts without available_descriptors().wait(nr_frags)
SendNoWait(n) ==
    /\ q = "tx"
    /\ pc = "idle"
    /\ next_pkt < Len(pkts)
    /\ LET p == next_pkt + 1
           nr == PrependedFrags(n)
       IN  /\ next_pkt' = p
           /\ TxPostLambda(vring, p, nr)
           /\ pkts' = [pkts EXCEPT ![p] = [@ EXCEPT !.st = "posting",
                                                   !.frags = n,
                                                   !.nr = nr,
                                                   !.seq = vring.head]]
    /\ UNCHANGED << cfg, avail_mem, used_mem, notified, last_kick,
                    used_head, rx, host >>

\* virtio_net_device::send -> txq::post, for a packet of n payload fragments
Send(n) ==
    /\ q = "tx"
    /\ pc = "idle"
    /\ next_pkt < Len(pkts)
    /\ LET p == next_pkt + 1
           nr == PrependedFrags(n)
       IN  /\ next_pkt' = p
           /\ IF SemReady(vring, nr)
              THEN /\ TxPostLambda([vring EXCEPT !.sem = @ - nr], p, nr)
                   /\ pkts' = [pkts EXCEPT ![p] = [@ EXCEPT !.st = "posting",
                                                           !.frags = n,
                                                           !.nr = nr,
                                                           !.seq = vring.head]]
              ELSE /\ vring' = [vring EXCEPT
                                  !.waiters = Append(@, [k |-> "send",
                                                         id |-> p, nr |-> nr])]
                   /\ pkts' = [pkts EXCEPT ![p] = [@ EXCEPT !.st = "waiting",
                                                           !.frags = n,
                                                           !.nr = nr,
                                                           !.waited = TRUE]]
                   /\ UNCHANGED << live, pc, ctx >>
    /\ UNCHANGED << cfg, avail_mem, used_mem, notified, last_kick,
                    used_head, rx, host >>

\* The continuation of a send() that waited on the semaphore, run from the
\* reactor's queue once semaphore::signal has granted its permits.
RunSend ==
    /\ pc = "idle"
    /\ vring.tasks # << >>
    /\ Head(vring.tasks).k = "send"
    /\ LET p == Head(vring.tasks).id
       IN  /\ TxPostLambda([vring EXCEPT !.tasks = Tail(@)], p, pkts[p].nr)
           /\ pkts' = [pkts EXCEPT ![p] = [@ EXCEPT !.st = "posting",
                                                   !.seq = vring.head]]
    /\ UNCHANGED << cfg, avail_mem, used_mem, notified, last_kick,
                    used_head, next_pkt, rx, host >>

\* The packet-destruction continuation of txq::post ("schedule packet
\* destruction"): dropping the lambda releases the packet it captured.
RunTxDone ==
    /\ pc = "idle"
    /\ vring.tasks # << >>
    /\ Head(vring.tasks).k = "txdone"
    /\ vring' = [vring EXCEPT !.tasks = Tail(@)]
    /\ pkts' = [pkts EXCEPT ![Head(vring.tasks).id] =
                                [@ EXCEPT !.released = @ + 1]]
    /\ UNCHANGED << cfg, avail_mem, used_mem, notified, last_kick, pc, ctx,
                    used_head, next_pkt, live, rx, host >>

\* ------------------------------------------------ vring::post, after for_each

\* the store of avail.idx with the value _head had before the for_each
StaleIdx(s) == U16(s.head - 1)

\* The value vring::post stores to avail.idx: _avail._head
StoredIdx(s) == s.head

\* _avail._shared->_idx.store(_avail._head, release)
Publish ==
    /\ pc = "publish"
    /\ avail_idx' = StoredIdx(vring)
    /\ live' = {IF c.st = "built" THEN [c EXCEPT !.st = "avail"] ELSE c :
                    c \in live}
    /\ pc' = "kick"
    /\ UNCHANGED << cfg, vring, avail_flags, used_event, used_mem, notified,
                    last_kick, ctx, used_head, pkts, next_pkt, rx, host >>

\* kick()
Kick ==
    /\ pc = "kick"
    /\ LET r == KickResult(event_index, avail_idx, avail_event, used_flags,
                           vring.added)
       IN  /\ vring' = [vring EXCEPT !.added = r.added]
           /\ last_kick' = [called |-> TRUE, signal |-> r.signal,
                            idx |-> avail_idx,
                            event |-> avail_event, flags |-> used_flags,
                            added |-> vring.added]
    /\ pc' = "dc_disable"
    /\ UNCHANGED << cfg, avail_mem, used_mem, notified, ctx, used_head,
                    pkts, next_pkt, live, rx, host >>

\* ------------------------------------------------------------ do_complete

\* What indexing _completions or _descs with id reaches: the entry itself
\* when id is in range; otherwise the access is out of bounds and reaches
\* oob, the entry it happens to alias, or -1 when the access faults.
Resolve(id, oob) == IF id \in Descs THEN id ELSE oob

\* set_value that runs the continuation before the ones already queued
SetValueFront(s, id, len) ==
    IF id = -1 THEN [s EXCEPT !.fault = "oob"]
    ELSE LET c == s.completions[id]
         IN  IF c.k = "set" THEN [s EXCEPT !.fault = "assert"]
             ELSE IF c.k = "none"
             THEN [s EXCEPT !.completions[id] = SetPromise]
             ELSE [s EXCEPT !.completions[id] = SetPromise,
                            !.tasks = << [k |-> IF c.k = "tx"
                                                THEN "txdone"
                                                ELSE "rxbuf",
                                          id |-> c.id, len |-> len] >> \o @]

\* promise::set_value on _completions[id]: an attached continuation is
\* queued with the value; fulfilling a promise twice fails its assertion.
SetValue(s, id, len) ==
    IF id = -1 THEN [s EXCEPT !.fault = "oob"]
    ELSE LET c == s.completions[id]
         IN  IF c.k = "set" THEN [s EXCEPT !.fault = "assert"]
             ELSE IF c.k = "none"
             THEN [s EXCEPT !.completions[id] = SetPromise]
             ELSE [s EXCEPT !.completions[id] = SetPromise,
                            !.tasks = Append(@, [k |-> IF c.k = "tx"
                                                       THEN "txdone"
                                                       ELSE "rxbuf",
                                                 id |-> c.id, len |-> len])]

\* the walk that frees the head and does not follow has_next
WalkHeadOnly(s, id, fuel, oob) ==
    IF s.fault # "none" THEN s
    ELSE IF id = -1 THEN [s EXCEPT !.fault = "oob"]
    ELSE FreeDesc(s, id)

\* The chain walk of do_complete: free the descriptor, follow _next while
\* has_next.
RECURSIVE WalkChain(_, _, _, _)
WalkChain(s, id, fuel, oob) ==
    IF s.fault # "none" THEN s
    ELSE IF fuel = 0 THEN [s EXCEPT !.fault = "loop"]
    ELSE IF id = -1 THEN [s EXCEPT !.fault = "oob"]
    ELSE LET next == s.descs[id].next
             has_next == s.descs[id].has_next
             s1 == FreeDesc(s, id)
         IN  IF has_next
             THEN WalkChain(s1, Resolve(next, oob), fuel - 1, oob)
             ELSE s1

\* One iteration of the inner while loop of do_complete, for used element ue
CompleteOne(s, ue, oob) ==
    LET s1 == [s EXCEPT !.tail = U16(@ + 1)]
        id == Resolve(ue.id, oob)
    IN  WalkChain(SetValue(s1, id, ue.len), id, 4 * Size, oob)

\* The outcomes of out-of-bounds accesses that have to be told apart.
OobChoices(s, ue) ==
    IF CompleteOne(s, ue, -1).fault = "oob" THEN Descs \cup {-1} ELSE {-1}

\* disable_interrupts()
DcDisable ==
    /\ pc = "dc_disable"
    /\ avail_flags' = IF event_index THEN avail_flags
                      ELSE VRING_AVAIL_F_NO_INTERRUPT
    /\ pc' = "dc_load"
    /\ UNCHANGED << cfg, vring, avail_idx, used_event, used_mem, notified,
                    last_kick, ctx, used_head, pkts, next_pkt, live, rx,
                    host >>

\* auto used_head = _used._shared->_idx.load(acquire)
DcLoad ==
    /\ pc = "dc_load"
    /\ used_head' = used_idx
    /\ pc' = "dc_drain"
    /\ UNCHANGED << cfg, vring, avail_mem, used_mem, notified, last_kick,
                    ctx, pkts, next_pkt, live, rx, host >>

\* One iteration of while (used_head != _used._tail)
DcDrain ==
    /\ pc = "dc_drain"
    /\ used_head # vring.tail
    /\ LET ue == used_elements[masked(vring.tail)]
       IN  /\ \E oob \in OobChoices(vring, ue) :
                  vring' = CompleteOne(vring, ue, oob)
           /\ live' = {c \in live : ~(c.head = ue.id /\ c.st = "used")}
    /\ pc' = IF vring'.fault = "none" THEN "dc_drain" ELSE "aborted"
    /\ UNCHANGED << cfg, avail_mem, used_mem, notified, last_kick, ctx,
                    used_head, pkts, next_pkt, rx, host >>

\* enable_interrupts(), up to the fence
DcEnable ==
    /\ pc = "dc_drain"
    /\ used_head = vring.tail
    /\ IF event_index
       THEN used_event' = vring.tail /\ UNCHANGED avail_flags
       ELSE avail_flags' = 0 /\ UNCHANGED used_event
    /\ pc' = "dc_recheck"
    /\ UNCHANGED << cfg, vring, avail_idx, used_mem, notified, last_kick,
                    ctx, used_head, pkts, next_pkt, live, rx, host >>

\* enable_interrupts() without the re-check
NoRecheck(idx, tail) == FALSE

\* enable_interrupts() after the fence: "any pending buffers"
PendingBuffers(idx, tail) == idx # tail

\* The re-check of enable_interrupts() and the loop condition of
\* do_complete; when the loop ends the running task is over: the future of
\* a send resolves, complete() waits on _notified again.
DcRecheck ==
    /\ pc = "dc_recheck"
    /\ IF PendingBuffers(used_idx, vring.tail)
       THEN pc' = "dc_disable" /\ UNCHANGED << ctx, pkts >>
       ELSE /\ pc' = "idle"
            /\ ctx' = [k |-> "none", id |-> 0]
            /\ pkts' = IF ctx.k = "send"
                       THEN [pkts EXCEPT ![ctx.id] =
                                [@ EXCEPT !.st = "resolved"]]
                       ELSE pkts
    /\ rx' = IF ~PendingBuffers(used_idx, vring.tail) /\ ctx.k = "refill"
             THEN [rx EXCEPT !.refill = "ready"]
             ELSE rx
    /\ UNCHANGED << cfg, vring, avail_mem, used_mem, notified, last_kick,
                    used_head, next_pkt, live, host >>

\* vring::complete: the continuation of _notified.wait()
OnNotified ==
    /\ pc = "idle"
    /\ notified
    /\ q = "tx" \/ rx.started
    /\ notified' = FALSE
    /\ pc' = "dc_disable"
    /\ ctx' = [k |-> "complete", id |-> 0]
    /\ UNCHANGED << cfg, vring, avail_mem, used_mem, last_kick, used_head,
                    pkts, next_pkt, live, rx, host >>

\* ------------------------------------------------------------ rxq

\* The receive buffers the model tells apart
Bufs == 1 .. (Size + MaxRxBufs)

\* make_buffer_chain: one writeable 4096-byte buffer, the reassembly
\* continuation attached to its completion.
RxChain(buf) ==
    << [addr |-> buf, len |-> BufLen, writeable |-> TRUE,
        completed |-> [k |-> "rx", id |-> buf]] >>

\* the continuation without the opportunistic try_wait: one buffer a step
RxPostLambdaOne(s) ==
    LET chains == << RxChain(rx.next_buf + 1) >>
    IN  /\ vring' = PostChains(s, chains)
        /\ live' = live \cup LiveOf(FreeList(s), s.head, chains,
                                    << rx.next_buf + 1 >>)
        /\ rx' = [rx EXCEPT !.next_buf = @ + 1, !.refill = "posting"]
        /\ pc' = IF vring'.fault = "none" THEN "publish" ELSE "aborted"
        /\ ctx' = [k |-> "refill", id |-> 0]

\* The continuation prepare_buffers attaches to available.wait(1), run with
\* s, the vring after wait(1) took its permit: grab what is left of the
\* permits and post as many single-buffer chains.
RxPostLambda(s) ==
    LET opportunistic == s.sem
        got == SemReady(s, opportunistic)
        count == 1 + (IF got THEN opportunistic ELSE 0)
        s1 == IF got THEN [s EXCEPT !.sem = @ - opportunistic] ELSE s
        chains == [i \in 1 .. count |-> RxChain(rx.next_buf + i)]
    IN  /\ vring' = PostChains(s1, chains)
        /\ live' = live \cup LiveOf(FreeList(s1), s1.head, chains,
                                    [i \in 1 .. count |-> rx.next_buf + i])
        /\ rx' = [rx EXCEPT !.next_buf = @ + count, !.refill = "posting"]
        /\ pc' = IF vring'.fault = "none" THEN "publish" ELSE "aborted"
        /\ ctx' = [k |-> "refill", id |-> 0]

\* rxq::prepare_buffers, called by keep_doing
PrepareBuffers ==
    /\ q = "rx"
    /\ pc = "idle"
    /\ rx.refill = "ready"
    /\ IF SemReady(vring, 1)
       THEN RxPostLambda([vring EXCEPT !.sem = @ - 1])
       ELSE /\ vring' = [vring EXCEPT
                           !.waiters = Append(@, [k |-> "refill", id |-> 0,
                                                  nr |-> 1])]
            /\ rx' = [rx EXCEPT !.refill = "waiting"]
            /\ UNCHANGED << live, pc, ctx >>
    /\ UNCHANGED << cfg, avail_mem, used_mem, notified, last_kick,
                    used_head, pkts, next_pkt, host >>

\* The continuation of a prepare_buffers that waited for its permit
RunRefill ==
    /\ pc = "idle"
    /\ vring.tasks # << >>
    /\ Head(vring.tasks).k = "refill"
    /\ RxPostLambda([vring EXCEPT !.tasks = Tail(@)])
    /\ UNCHANGED << cfg, avail_mem, used_mem, notified, last_kick,
                    used_head, pkts, next_pkt, host >>

\* reassembly that takes the whole length of the first buffer
ReassembleWholeFirst(r, buf, len, hlen) ==
    LET first == r.remaining_buffers = 0
        frag == [buf |-> buf, off |-> IF first THEN hlen ELSE 0,
                 len |-> len]
    IN  [r EXCEPT !.remaining_buffers =
                      (IF first THEN r.mem[buf] ELSE @) - 1,
                  !.fragments = Append(IF first THEN << >> ELSE @, frag),
                  !.deleters = Append(IF first THEN << >> ELSE @, buf)]

\* The completion continuation of a receive buffer, up to "Last buffer":
\* a first buffer starts a packet of num_buffers buffers and loses its
\* header, every buffer becomes a fragment and is owned by _deleters.  (The
\* host reports at least the header for a first buffer, so that the
\* unsigned frag_len -= _header_len does not wrap.)
Reassemble(r, buf, len, hlen) ==
    LET first == r.remaining_buffers = 0
        frag == [buf |-> buf, off |-> IF first THEN hlen ELSE 0,
                 len |-> IF first THEN len - hlen ELSE len]
    IN  [r EXCEPT !.remaining_buffers =
                      (IF first THEN r.mem[buf] ELSE @) - 1,
                  !.fragments = Append(IF first THEN << >> ELSE @, frag),
                  !.deleters = Append(IF first THEN << >> ELSE @, buf)]

\* _rx_ready = _rx_ready.then(queue_rx_packet(p)): p is produced at once
\* when nothing is chained before it and the consumer has taken the last
\* packet, otherwise after the packets chained before it; busy tells
\* whether the consumer takes p without suspending.  then() on a failed
\* future does not run the continuation: p is destroyed with it.
Enqueue(r, p, busy) ==
    IF r.pending = << >> /\ ~r.busy
    THEN IF r.failed
         THEN [r EXCEPT !.dropped = Append(@, p)]
         ELSE [r EXCEPT !.delivered = Append(@, p), !.busy = busy]
    ELSE [r EXCEPT !.pending = Append(@, p), !.chained = TRUE]

\* the last-buffer branch calling queue_rx_packet without _rx_ready
DeliverUnchained(r, p, busy) ==
    [r EXCEPT !.delivered = Append(@, p), !.busy = busy]

\* "Last buffer": the packet's delivery is chained on _dev._rx_ready
LastBuffer(r, p, busy) == Enqueue(r, p, busy)

\* no check of num_buffers
NumBuffersAny(num_buffers) == TRUE

\* assert(hdr->num_buffers >= 1)
NumBuffersOk(num_buffers) == num_buffers >= 1

\* The completion continuation of a receive buffer; the reactor runs it
\* after the task that constructed the device and subscribed to it.
RunRxBuf ==
    /\ pc = "idle"
    /\ rx.started
    /\ vring.tasks # << >>
    /\ Head(vring.tasks).k = "rxbuf"
    /\ LET t == Head(vring.tasks)
       IN  IF rx.remaining_buffers = 0 /\ ~NumBuffersOk(rx.mem[t.id])
           THEN /\ vring' = [vring EXCEPT !.tasks = Tail(@),
                                          !.fault = "assert"]
                /\ pc' = "aborted"
                /\ UNCHANGED rx
           ELSE /\ vring' = [vring EXCEPT !.tasks = Tail(@)]
                /\ LET r == Reassemble(rx, t.id, t.len, header_len)
                   IN  IF r.remaining_buffers = 0
                       THEN \E busy \in BOOLEAN :
                              rx' = LastBuffer(
                                        [r EXCEPT !.deleters = << >>],
                                        [frags |-> r.fragments,
                                         dels |-> r.deleters], busy)
                       ELSE rx' = r
                /\ UNCHANGED pc
    /\ UNCHANGED << cfg, avail_mem, used_mem, notified, last_kick, ctx,
                    used_head, pkts, next_pkt, live, host >>

\* The consumer resolves the future it returned for the last packet.
ConsumerDone ==
    /\ pc = "idle"
    /\ rx.busy
    /\ rx' = [rx EXCEPT !.busy = FALSE]
    /\ UNCHANGED << cfg, vring, avail_mem, used_mem, notified, last_kick,
                    pc, ctx, used_head, pkts, next_pkt, live, host >>

\* The future the consumer returned for the last packet fails; the
\* failure becomes the state of _rx_ready.
ConsumerFail ==
    /\ pc = "idle"
    /\ rx.busy
    /\ rx' = [rx EXCEPT !.busy = FALSE, !.failed = TRUE]
    /\ UNCHANGED << cfg, vring, avail_mem, used_mem, notified, last_kick,
                    pc, ctx, used_head, pkts, next_pkt, live, host >>

\* The next continuation chained on _rx_ready produces its packet, or is
\* skipped and passes the failure on when the future before it has failed.
ProduceNext ==
    /\ pc = "idle"
    /\ ~rx.busy
    /\ rx.pending # << >>
    /\ IF rx.failed
       THEN rx' = [rx EXCEPT !.dropped = Append(@, Head(rx.pending)),
                             !.pending = Tail(@)]
       ELSE \E busy \in BOOLEAN :
              rx' = [rx EXCEPT !.delivered = Append(@, Head(rx.pending)),
                               !.pending = Tail(@),
                               !.busy = busy]
    /\ UNCHANGED << cfg, vring, avail_mem, used_mem, notified, last_kick,
                    pc, ctx, used_head, pkts, next_pkt, live, host >>

\* virtio_net_device::receive: _rxq.run() starts vring::complete
Receive ==
    /\ q = "rx"
    /\ ~rx.started
    /\ pc = "idle"
    /\ rx' = [rx EXCEPT !.started = TRUE]
    /\ UNCHANGED << cfg, vring, avail_mem, used_mem, notified, last_kick,
                    pc, ctx, used_head, pkts, next_pkt, live, host >>

\* ------------------------------------------------------------ the host

\* The host reads the next entry of the available ring.
HostTake ==
    /\ host.avail # avail_idx
    /\ LET h == vring.ring[masked(host.avail)]
       IN  /\ host' = [host EXCEPT !.avail = U16(@ + 1),
                                   !.inflight = Append(@, h)]
           /\ live' = {IF c.head = h /\ c.st = "avail"
                       THEN [c EXCEPT !.st = "taken"] ELSE c : c \in live}
    /\ UNCHANGED << cfg, vring, avail_mem, used_mem, notified, last_kick,
                    pc, ctx, used_head, pkts, next_pkt, rx >>

\* The i-th chain the host holds, as a sequence without it
Without(sq, i) == SubSeq(sq, 1, i - 1) \o SubSeq(sq, i + 1, Len(sq))

\* The host returns a TX chain: it writes the used element {head, 0} and
\* advances used.idx.  TX chains may be returned out of order.
HostUseTx ==
    /\ q = "tx"
    /\ host.sig = "idle"
    /\ \E i \in 1 .. Len(host.inflight) :
         LET h == host.inflight[i]
         IN  /\ used_elements' = [used_elements EXCEPT
                                    ![masked(used_idx)] = [id |-> h, len |-> 0]]
             /\ used_idx' = U16(used_idx + 1)
             /\ host' = [host EXCEPT !.inflight = Without(@, i),
                                     !.sig = "check", !.old = used_idx]
             /\ live' = {IF c.head = h /\ c.st = "taken"
                         THEN [c EXCEPT !.st = "used"] ELSE c : c \in live}
             /\ pkts' = [p \in DOMAIN pkts |->
                           IF \E c \in live : c.head = h /\ c.st = "taken"
                                              /\ c.owner = p
                           THEN [pkts[p] EXCEPT !.acked = TRUE] ELSE pkts[p]]
    /\ UNCHANGED << cfg, vring, avail_mem, used_flags, avail_event, notified,
                    last_kick, pc, ctx, used_head, next_pkt, rx >>

\* Whether the host interrupts the driver after moving used.idx from old
\* to new: the avail flag without event_index, used_event with it.
HostNeedsSignal(ev, flags, event, old, new) ==
    IF ev THEN U16(new - event - 1) < U16(new - old)
    ELSE BitAnd(flags, VRING_AVAIL_F_NO_INTERRUPT) = 0

\* After writing used.idx the host decides whether to signal _notified.
HostSignal ==
    /\ host.sig = "check"
    /\ notified' = (notified \/ HostNeedsSignal(event_index, avail_flags,
                                                used_event, host.old,
                                                used_idx))
    /\ host' = [host EXCEPT !.sig = "idle"]
    /\ UNCHANGED << cfg, vring, avail_mem, used_mem, last_kick, pc, ctx,
                    used_head, pkts, next_pkt, live, rx >>

\* With event_index the host publishes the avail index it wants a kick at.
HostSetAvailEvent ==
    /\ event_index
    /\ \E d \in 0 .. MaxAhead :
         /\ avail_event # U16(host.avail + d)
         /\ avail_event' = U16(host.avail + d)
    /\ UNCHANGED << cfg, vring, avail_mem, used_flags, used_idx,
                    used_elements, notified, last_kick, pc, ctx, used_head,
                    pkts, next_pkt, live, rx, host >>

\* Without event_index the host sets and clears NO_NOTIFY.
HostSetNoNotify ==
    /\ ~event_index
    /\ used_flags' = VRING_USED_F_NO_NOTIFY - used_flags
    /\ UNCHANGED << cfg, vring, avail_mem, used_idx, used_elements,
                    avail_event, notified, last_kick, pc, ctx, used_head,
                    pkts, next_pkt, live, rx, host >>

\* The lengths the host reports for a receive buffer
RxLens == { HdrLenMrg + FragLen, BufLen }

\* The host takes the next receive buffer of the available ring, fills it
\* and returns it: the first buffer of a packet gets the header with
\* num_buffers = n, every buffer but the last is filled to its end, the
\* packet is over with its n-th buffer.  The host fills MaxRxBufs
\* buffers.
HostUseRx ==
    /\ q = "rx"
    /\ host.sig = "idle"
    /\ host.used < MaxRxBufs
    /\ host.avail # avail_idx
    /\ \E n \in IF host.left = 0 THEN 1 .. (MaxRxBufs - host.used)
                ELSE { host.left } :
       \E len \in IF n = 1 THEN RxLens ELSE { BufLen } :
         LET h == vring.ring[masked(host.avail)]
             buf == vring.descs[h].paddr
             cur == Append(host.cur, [buf |-> buf, len |-> len])
         IN  /\ used_elements' = [used_elements EXCEPT
                                    ![masked(used_idx)] =
                                        [id |-> h, len |-> len]]
             /\ used_idx' = U16(used_idx + 1)
             /\ rx' = IF host.left = 0 THEN [rx EXCEPT !.mem[buf] = n]
                      ELSE rx
             /\ host' = [host EXCEPT
                           !.avail = U16(@ + 1),
                           !.sig = "check", !.old = used_idx,
                           !.used = @ + 1,
                           !.left = n - 1,
                           !.cur = IF n = 1 THEN << >> ELSE cur,
                           !.done = IF n = 1 THEN Append(@, cur) ELSE @]
             /\ live' = {IF c.head = h /\ c.st = "avail"
                         THEN [c EXCEPT !.st = "used"] ELSE c : c \in live}
    /\ UNCHANGED << cfg, vring, avail_mem, used_flags, avail_event, notified,
                    last_kick, pc, ctx, used_head, pkts, next_pkt >>

\* The 16-bit word a host can leave at offset 10 of a receive buffer: the
\* num_buffers field of net_hdr_mrg, or the first two bytes of the frame
\* when the header is the 10-byte net_hdr.
HdrWords == { 0, 1, 2 }

\* The host puts one frame into the next receive buffer of the available
\* ring and returns it; the word at offset 10 is whatever the frame (or a
\* host that does not follow the protocol) puts there.
HostUseRaw ==
    /\ q = "rx"
    /\ host.sig = "idle"
    /\ host.used < MaxRxBufs
    /\ host.avail # avail_idx
    /\ \E w \in HdrWords :
       \E len \in { header_len + FragLen } :
         LET h == vring.ring[masked(host.avail)]
             buf == vring.descs[h].paddr
         IN  /\ used_elements' = [used_elements EXCEPT
                                    ![masked(used_idx)] =
                                        [id |-> h, len |-> len]]
             /\ used_idx' = U16(used_idx + 1)
             /\ rx' = [rx EXCEPT !.mem[buf] = w]
             /\ host' = [host EXCEPT
                           !.avail = U16(@ + 1),
                           !.sig = "check", !.old = used_idx,
                           !.used = @ + 1,
                           !.done = Append(@, << [buf |-> buf,
                                                  len |-> len] >>)]
             /\ live' = {IF c.head = h /\ c.st = "avail"
                         THEN [c EXCEPT !.st = "used"] ELSE c : c \in live}
    /\ UNCHANGED << cfg, vring, avail_mem, used_flags, avail_event, notified,
                    last_kick, pc, ctx, used_head, pkts, next_pkt >>

\* Ids no descriptor of the ring has
BadIds == { Size, 65535 }

\* A host that breaks the protocol writes a used element whose id is
\* outside [0, size).
HostUseBadId ==
    /\ host.sig = "idle"
    /\ host.bad < MaxBad
    /\ \E id \in BadIds :
         used_elements' = [used_elements EXCEPT
                             ![masked(used_idx)] = [id |-> id, len |-> 0]]
    /\ used_idx' = U16(used_idx + 1)
    /\ host' = [host EXCEPT !.sig = "check", !.old = used_idx,
                            !.bad = @ + 1]
    /\ UNCHANGED << cfg, vring, avail_mem, used_flags, avail_event, notified,
                    last_kick, pc, ctx, used_head, pkts, next_pkt, live, rx >>

\* The last descriptor of the chain that starts at id
RECURSIVE LastOf(_, _, _)
LastOf(s, id, fuel) ==
    IF fuel = 0 \/ ~s.descs[id].has_next \/ s.descs[id].next \notin Descs
    THEN id
    ELSE LastOf(s, s.descs[id].next, fuel - 1)

\* A host that breaks the protocol closes a chain it holds into a HAS_NEXT
\* cycle (the descriptor table is memory it shares with the driver) and
\* returns the chain.
HostUseCycle ==
    /\ host.sig = "idle"
    /\ host.bad < MaxBad
    /\ \E i \in 1 .. Len(host.inflight) :
         LET h == host.inflight[i]
             l == LastOf(vring, h, Size)
         IN  /\ vring' = [vring EXCEPT !.descs[l].has_next = TRUE,
                                       !.descs[l].next = h]
             /\ used_elements' = [used_elements EXCEPT
                                    ![masked(used_idx)] = [id |-> h, len |-> 0]]
             /\ used_idx' = U16(used_idx + 1)
             /\ host' = [host EXCEPT !.inflight = Without(@, i),
                                     !.sig = "check", !.old = used_idx,
                                     !.bad = @ + 1]
             /\ live' = {IF c.head = h /\ c.st = "taken"
                         THEN [c EXCEPT !.st = "used"] ELSE c : c \in live}
             /\ pkts' = [p \in DOMAIN pkts |->
                           IF \E c \in live : c.head = h /\ c.st = "taken"
                                              /\ c.owner = p
                           THEN [pkts[p] EXCEPT !.acked = TRUE] ELSE pkts[p]]
    /\ UNCHANGED << cfg, avail_mem, used_flags, avail_event, notified,
                    last_kick, pc, ctx, used_head, next_pkt, rx >>

\* ------------------------------------------------------------ initial states

\* The state after construction of the device, with the ring indices at h
\* and added chains published since the last kick; hlen is the header
\* length setup_features chose and aev the host's avail_event.
InitRing(queue, ev, h, added, hlen, aev, npkts) ==
    /\ q = queue
    /\ event_index = ev
    /\ header_len = hlen
    /\ vring = [Setup EXCEPT !.head = h, !.tail = h, !.added = added]
    /\ avail_flags = 0
    /\ avail_idx = h
    /\ used_event = h
    /\ used_flags = 0
    /\ used_idx = h
    /\ used_elements = [i \in Descs |-> [id |-> 0, len |-> 0]]
    /\ avail_event = aev
    /\ notified = FALSE
    /\ last_kick = [called |-> FALSE, signal |-> FALSE, idx |-> 0,
                    event |-> 0, flags |-> 0, added |-> 0]
    /\ pc = "idle"
    /\ ctx = [k |-> "none", id |-> 0]
    /\ used_head = h
    /\ pkts = [p \in 1 .. npkts |-> [st |-> "unsent", frags |-> 0, nr |-> 0,
                                       seq |-> 0,
                                       waited |-> FALSE, acked |-> FALSE,
                                       released |-> 0]]
    /\ next_pkt = 0
    /\ live = {}
    /\ rx = [started |-> FALSE,
             refill |-> IF queue = "rx" THEN "ready" ELSE "none",
             next_buf |-> 0,
             mem |-> [b \in Bufs |-> 0],
             remaining_buffers |-> 0,
             fragments |-> << >>,
             deleters |-> << >>,
             pending |-> << >>,
             busy |-> FALSE,
             chained |-> FALSE,
             failed |-> FALSE,
             dropped |-> << >>,
             delivered |-> << >>]
    /\ host = [avail |-> h, inflight |-> << >>, sig |-> "idle", old |-> h,
               bad |-> 0, used |-> 0, left |-> 0, cur |-> << >>,
               done |-> << >>]

\* The device with every offload switched off, before any header is built
NoOffload ==
    [hw |-> [tx_csum_offload |-> FALSE, tx_tso |-> FALSE, tx_ufo |-> FALSE,
             mtu |-> 1500],
     oi |-> [protocol |-> "icmp", ip_hdr_len |-> 20, tcp_hdr_len |-> 20,
             udp_hdr_len |-> 8],
     len |-> 0, built |-> FALSE, vhdr |-> ZeroHdr]

InitWith(queue, ev, h, added, hlen, aev) ==
    /\ InitRing(queue, ev, h, added, hlen, aev, MaxPkts)
    /\ txhdr = NoOffload

\* The same with VIRTIO_NET_F_MRG_RXBUF negotiated and avail_event as the
\* host's zeroed memory has it.
InitAt(queue, ev, h, added) == InitWith(queue, ev, h, added, HdrLenMrg, 0)

Init == \E ev \in BOOLEAN : InitAt("tx", ev, 0, 0)

Next ==
    \/ \E n \in 1 .. MaxFrags : Send(n)
    \/ RunSend \/ RunTxDone
    \/ Publish \/ Kick \/ DcDisable \/ DcLoad \/ DcDrain \/ DcEnable
    \/ DcRecheck \/ OnNotified
    \/ HostTake \/ HostUseTx \/ HostSignal \/ HostSetAvailEvent
    \/ HostSetNoNotify

Spec == Init /\ [][Next]_vars

\* States the driver is in after a long run: the indices about to wrap, or
\* 32766 chains published since the last kick (the host has not asked for
\* one since the first post).
LateProfiles == { << 65535, 0 >>, << 32767, 32766 >> }
InitLate ==
    \E ev \in BOOLEAN : \E pr \in LateProfiles :
        InitAt("tx", ev, pr[1], pr[2])
SpecLate == InitLate /\ [][Next]_vars

\* The TX queue with event_index negotiated, after runs that left the
\* indices at h with added chains published since the last kick and
\* avail_event at aev: << h, added, aev >>.  The first three are the states
\* a host that asked for a kick at index 5 leaves after 0, 2 and 4 posts
\* that followed a kick at index 1.
KickProfiles ==
    { << 1, 0, 5 >>, << 3, 2, 5 >>, << 5, 4, 5 >>,
      << 32767, 32766, 0 >>, << 65535, 0, 0 >> }
InitKick ==
    \E pr \in KickProfiles :
        InitWith("tx", TRUE, pr[1], pr[2], HdrLenMrg, pr[3])

\* kick() does not look at the chains: every packet has MaxFrags fragments.
NextKick ==
    \/ Send(MaxFrags)
    \/ RunSend \/ RunTxDone
    \/ Publish \/ Kick \/ DcDisable \/ DcLoad \/ DcDrain \/ DcEnable
    \/ DcRecheck \/ OnNotified
    \/ HostTake \/ HostUseTx \/ HostSignal \/ HostSetAvailEvent

SpecKick == InitKick /\ [][NextKick]_vars

\* The TX queue for one packet more than the ring has slots, the indices
\* three posts before their wrap: the last post reuses the slot of the
\* first.  Every packet has one fragment, the host's kick hints stay as
\* they are.
LapPkts == Size + 1
InitLap ==
    /\ InitRing("tx", FALSE, 65533, 0, HdrLenMrg, 0, LapPkts)
    /\ txhdr = NoOffload

NextLap ==
    \/ Send(1)
    \/ RunSend \/ RunTxDone
    \/ Publish \/ Kick \/ DcDisable \/ DcLoad \/ DcDrain \/ DcEnable
    \/ DcRecheck \/ OnNotified
    \/ HostTake \/ HostUseTx \/ HostSignal

SpecLap == InitLap /\ [][NextLap]_vars

\* send() also of packets whose chain does not fit the ring; the host's
\* kick hints, which no step of the host or of the reclaim depends on, stay
\* as they are.
NextBig ==
    \/ \E n \in (1 .. MaxFrags) \cup {BigFrags} : Send(n)
    \/ RunSend \/ RunTxDone
    \/ Publish \/ Kick \/ DcDisable \/ DcLoad \/ DcDrain \/ DcEnable
    \/ DcRecheck \/ OnNotified
    \/ HostTake \/ HostUseTx \/ HostSignal

\* The reactor runs every runnable continuation and poller eventually; the
\* host eventually reads every published chain, returns every chain it
\* holds and decides on the notification after every used element.  Neither
\* side can take steps forever without the other, so it is enough that
\* some step of the two is taken whenever one is possible.
Progress ==
    \/ RunSend \/ RunTxDone
    \/ Publish \/ Kick \/ DcDisable \/ DcLoad \/ DcDrain \/ DcEnable
    \/ DcRecheck \/ OnNotified
    \/ HostTake \/ HostUseTx \/ HostSignal

SpecFair == Init /\ [][NextBig]_vars /\ WF_vars(Progress)

\* The TX queue with a host that breaks the protocol up to MaxBad times.
NextMal ==
    \/ \E n \in 1 .. MaxFrags : Send(n)
    \/ RunSend \/ RunTxDone
    \/ Publish \/ Kick \/ DcDisable \/ DcLoad \/ DcDrain \/ DcEnable
    \/ DcRecheck \/ OnNotified
    \/ HostTake \/ HostUseTx \/ HostSignal
    \/ HostUseBadId \/ HostUseCycle

SpecMal == Init /\ [][NextMal]_vars

\* The RX queue: refill, the host filling buffers, reassembly, delivery.
InitRx == \E ev \in BOOLEAN : InitAt("rx", ev, 0, 0)

NextRx ==
    \/ Receive \/ PrepareBuffers \/ RunRefill \/ RunRxBuf
    \/ ConsumerDone \/ ProduceNext
    \/ Publish \/ Kick \/ DcDisable \/ DcLoad \/ DcDrain \/ DcEnable
    \/ DcRecheck \/ OnNotified
    \/ HostUseRx \/ HostSignal

SpecRx == InitRx /\ [][NextRx]_vars

\* The RX queue with either header length setup_features can choose and a
\* host that returns one frame per buffer.
InitRxRaw ==
    \E ev \in BOOLEAN : \E hlen \in { HdrLen, HdrLenMrg } :
        InitWith("rx", ev, 0, 0, hlen, 0)

NextRxRaw ==
    \/ Receive \/ PrepareBuffers \/ RunRefill \/ RunRxBuf
    \/ ConsumerDone \/ ProduceNext
    \/ Publish \/ Kick \/ DcDisable \/ DcLoad \/ DcDrain \/ DcEnable
    \/ DcRecheck \/ OnNotified
    \/ HostUseRaw \/ HostSignal

SpecRxRaw == InitRxRaw /\ [][NextRxRaw]_vars

\* The RX queue with a consumer whose future can fail.
NextRxFail ==
    \/ Receive \/ PrepareBuffers \/ RunRefill \/ RunRxBuf
    \/ ConsumerDone \/ ConsumerFail \/ ProduceNext
    \/ Publish \/ Kick \/ DcDisable \/ DcLoad \/ DcDrain \/ DcEnable
    \/ DcRecheck \/ OnNotified
    \/ HostUseRx \/ HostSignal

SpecRxFail == InitRx /\ [][NextRxFail]_vars

\* The header construction of txq::post on its own: the offload options of
\* setup_features in every combination, TCP, UDP and other packets, with
\* lengths around mtu + eth_hdr_len.
HwFeatures ==
    [tx_csum_offload : BOOLEAN, tx_tso : BOOLEAN, tx_ufo : BOOLEAN,
     mtu : { 1500 }]
OffloadInfos ==
    [protocol : { "tcp", "udp", "icmp" }, ip_hdr_len : { 20, 24 },
     tcp_hdr_len : { 20, 32 }, udp_hdr_len : { 8 }]
PacketLens == { 64, 1514, 1515, 3000, 5000 }

InitHdr ==
    /\ InitRing("tx", FALSE, 0, 0, HdrLenMrg, 0, MaxPkts)
    /\ \E hw \in HwFeatures : \E oi \in OffloadInfos :
       \E len \in PacketLens :
           txhdr = [hw |-> hw, oi |-> oi, len |-> len, built |-> FALSE,
                    vhdr |-> ZeroHdr]

SpecHdr == InitHdr /\ [][BuildHeader]_vars

\* ------------------------------------------------------------ properties

\* The descriptors of the chain that starts at id, along has_next/_next
RECURSIVE ChainOf(_, _, _)
ChainOf(s, id, fuel) ==
    IF fuel = 0 \/ id \notin Descs THEN << >>
    ELSE << id >> \o (IF s.descs[id].has_next
                      THEN ChainOf(s, s.descs[id].next, fuel - 1)
                      ELSE << >>)

\* No post and no do_complete is in progress.
Quiescent == pc = "idle"

FreeCount == Len(FreeList(vring))
ChainLen(c) == Len(ChainOf(vring, c.head, Size + 1))
RECURSIVE SumChainLen(_)
SumChainLen(S) ==
    IF S = {} THEN 0
    ELSE LET c == CHOOSE y \in S : TRUE
         IN  ChainLen(c) + SumChainLen(S \ {c})
InFlight == SumChainLen(live)

\* Permits granted to continuations that have not run yet
TaskPermits(t) ==
    IF t.k = "send" THEN pkts[t.id].nr ELSE IF t.k = "refill" THEN 1 ELSE 0
RECURSIVE SumPermits(_)
SumPermits(ts) ==
    IF ts = << >> THEN 0 ELSE TaskPermits(Head(ts)) + SumPermits(Tail(ts))
HeldPermits == SumPermits(vring.tasks)

\* Position seq of the available ring is below the published avail.idx
Below(seq, idx) == U16(idx - seq - 1) < 32768
Published(p) ==
    /\ pkts[p].st \in {"posting", "resolved"}
    /\ Below(pkts[p].seq, avail_idx)

C2_FreePlusInFlight ==
    Quiescent => FreeCount + InFlight = Size

C2_Witness ==
    /\ Quiescent
    /\ live # {}
    /\ \E p \in 1 .. MaxPkts : pkts[p].released > 0
    /\ FreeCount > 0

\* C3: every descriptor of a returned chain goes back to the free list once,
\* with one permit: permits appear only in the reclaim walk, as many as the
\* chain reclaimed has descriptors, and once every posted chain is reclaimed
\* and no producer holds permits the semaphore count is size and the free
\* list holds every descriptor once.
C3_Settled ==
    (Quiescent /\ live = {} /\ HeldPermits = 0)
        => /\ vring.sem = Size
           /\ Len(FreeList(vring)) = Size
           /\ SeqSet(FreeList(vring)) = Descs

C3_PermitStep ==
    LET out == vring.sem + SumPermits(vring.tasks)
        out2 == vring'.sem + SumPermits(vring'.tasks)
    IN  out2 > out =>
          /\ pc = "dc_drain"
          /\ \E c \in live \ live' :
                /\ c.st = "used"
                /\ out2 - out = Len(c.ds)
                /\ Len(FreeList(vring')) = Len(FreeList(vring)) + Len(c.ds)

C3_FreedExactlyOnce == [] C3_Settled /\ [][C3_PermitStep]_vars

C3_Witness ==
    /\ Quiescent /\ live = {} /\ HeldPermits = 0
    /\ \E p \in 1 .. MaxPkts : pkts[p].released > 0
    /\ \E p \in 1 .. MaxPkts : pkts[p].st = "unsent"

\* The buffers a live chain was posted with
ExpectedChain(c) ==
    IF q = "tx" THEN TxChain(c.owner, Len(c.ds), header_len)
    ELSE RxChain(c.owner)

\* Descriptor d is written as buffer b of a chain, followed by nxt (or last)
WrittenAs(d, b, last, nxt) ==
    /\ vring.descs[d].paddr = b.addr
    /\ vring.descs[d].len = b.len
    /\ vring.descs[d].writeable = b.writeable
    /\ vring.descs[d].has_next = ~last
    /\ ~last => vring.descs[d].next = nxt

ValidHead(c, slot) ==
    /\ vring.ring[slot] = c.head
    /\ ChainOf(vring, c.head, Size + 1) = c.ds
    /\ SeqSet(c.ds) \cap SeqSet(FreeList(vring)) = {}
    /\ \A i \in 1 .. Len(c.ds) :
          WrittenAs(c.ds[i], ExpectedChain(c)[i], i = Len(c.ds),
                    IF i < Len(c.ds) THEN c.ds[i + 1] ELSE 0)

\* C4: whatever avail.idx the host reads, every slot below it that the host
\* has not consumed yet, the slot at idx - 1 included, holds the head of a
\* fully written chain of allocated descriptors.
C4_PublishedSlotsValid ==
    /\ U16(avail_idx - host.avail) <= Size
    /\ \A k \in 0 .. (Size - 1) :
          k < U16(avail_idx - host.avail) =>
             \E c \in live :
                /\ c.seq = U16(host.avail + k)
                /\ c.st = "avail"
                /\ ValidHead(c, masked(c.seq))

C4_Witness ==
    /\ pc = "kick"
    /\ U16(avail_idx - host.avail) = 2
    /\ \E c \in live : c.seq = U16(avail_idx - 1) /\ Len(c.ds) = 2

\* A used element is pending and nothing will make the driver look at it:
\* it waits for a notification, none is pending, and the host is not about
\* to decide on one.
Lost ==
    /\ pc = "idle"
    /\ used_idx # vring.tail
    /\ ~notified
    /\ host.sig = "idle"

\* C7: no completion is lost on reclaim.  A used element the host writes at
\* any point of do_complete's disable, drain, enable, fence, re-read
\* sequence is either seen by the re-check, and do_complete then iterates
\* again without a kick, or followed by a notification.
C7_RecheckStep ==
    (pc = "dc_recheck" /\ pc' # pc /\ used_idx # vring.tail)
        => (pc' = "dc_disable" /\ last_kick' = last_kick)

C7_NoLostCompletion == [] ~Lost /\ [][C7_RecheckStep]_vars

\* The race: the drain read an empty ring, the host then advanced used.idx,
\* and the driver is about to re-read it after enabling interrupts.
C7_Witness ==
    /\ pc = "dc_recheck"
    /\ used_head = vring.tail
    /\ used_idx # used_head
    /\ host.sig = "idle"
    /\ ~notified

\* The buffers of a packet the host completed, in used-ring order
BufsOf(pk) == [j \in 1 .. Len(pk) |-> pk[j].buf]

\* C5: RX packets are produced to the stream in the order in which the
\* used elements of their final buffers appear in the used ring: the i-th
\* packet produced is the i-th packet the host completed.
C5_ProducedInOrder ==
    /\ Len(rx.delivered) <= Len(host.done)
    /\ \A i \in 1 .. Len(rx.delivered) :
          rx.delivered[i].dels = BufsOf(host.done[i])

\* Two packets were produced, the second one after it had to wait for the
\* consumer to take the first.
C5_Witness ==
    /\ Len(rx.delivered) = 2
    /\ rx.chained
    /\ rx.pending = << >>

RECURSIVE FitsUpTo(_, _)
FitsUpTo(ws, p) ==
    IF ws = << >> THEN TRUE
    ELSE /\ Head(ws).nr <= Size
         /\ Head(ws).id = p \/ FitsUpTo(Tail(ws), p)

Posted(p) == pkts[p].st \in {"posting", "resolved"}

\* C8 as stated: every send that suspends on the semaphore eventually posts
\* its chain.
C8_AsStated ==
    \A p \in 1 .. MaxPkts : (pkts[p].st = "waiting") ~> Posted(p)

\* C8, amended: a send that suspends on the semaphore eventually posts its
\* chain provided its chain, and the chain of every send queued ahead of it,
\* needs no more descriptors than the ring has.
C8_BackpressureEnds ==
    \A p \in 1 .. MaxPkts :
        (pkts[p].st = "waiting" /\ FitsUpTo(vring.waiters, p)) ~> Posted(p)

C8_Witness ==
    \E p \in 1 .. MaxPkts :
        pkts[p].waited /\ pkts[p].st = "resolved" /\ pkts[p].nr <= Size

\* The chain that starts at id never ends: it has a HAS_NEXT cycle
HasCycle(s, id) == Len(ChainOf(s, id, Size + 1)) = Size + 1

\* The used element ue is malformed
Malformed(s, ue) == ue.id \notin Descs \/ HasCycle(s, ue.id)

\* This step is the iteration of do_complete that takes a malformed element
DrainsMalformed ==
    /\ pc = "dc_drain"
    /\ vring'.tail # vring.tail
    /\ Malformed(vring, used_elements[masked(vring.tail)])

\* C9 as stated: when do_complete reads a used element whose id is outside
\* [0, size) or whose chain has a HAS_NEXT cycle, the driver aborts, no
\* completion promise is fulfilled for it and no descriptor or permit is
\* returned for it.
C9_Step ==
    DrainsMalformed =>
        /\ pc' = "aborted"
        /\ vring'.completions = vring.completions
        /\ vring'.tasks = vring.tasks
        /\ vring'.sem = vring.sem
        /\ vring'.waiters = vring.waiters
        /\ vring'.free_desc = vring.free_desc
        /\ vring'.descs = vring.descs

C9_AsStated == [][C9_Step]_vars

\* What the code does with a chain closed into a cycle whose head has its
\* promise pending: the promise is fulfilled and the walk writes the free
\* list links of the descriptors it frees, before anything else happens.
C9_CycleStep ==
    LET id == used_elements[masked(vring.tail)].id
    IN  (DrainsMalformed /\ id \in Descs /\ vring.completions[id].k = "tx")
           => /\ vring'.completions[id].k = "set"
              /\ Len(vring'.tasks) > Len(vring.tasks)
              /\ vring'.sem + SumPermits(vring'.tasks)
                    > vring.sem + SumPermits(vring.tasks)

C9_CycleIsReclaimed == [][C9_CycleStep]_vars

\* do_complete has taken a chain closed into a cycle, fulfilled the promise
\* of its head, returned more permits than the ring has descriptors, and
\* goes on.
C9_Witness ==
    /\ pc = "dc_drain"
    /\ vring.fault = "none"
    /\ host.bad > 0
    /\ \A i \in Descs : used_elements[i].id \in Descs
    /\ vring.tail = used_idx
    /\ vring.sem + HeldPermits > Size
    /\ \E t \in SeqSet(vring.tasks) : t.k = "txdone"

\* The packet the reassembly has to build from the buffers pk of a packet
\* the host completed
ExpectedPacket(pk) ==
    [frags |-> [j \in 1 .. Len(pk) |->
                   [buf |-> pk[j].buf,
                    off |-> IF j = 1 THEN header_len ELSE 0,
                    len |-> IF j = 1 THEN pk[j].len - header_len
                            ELSE pk[j].len]],
     dels |-> BufsOf(pk)]

\* The packets enqueued for delivery so far, produced or not
Enqueued == rx.delivered \o rx.pending

\* The receive buffers whose completion continuation has not run yet
RECURSIVE RxBufTasks(_)
RxBufTasks(ts) ==
    IF ts = << >> THEN 0
    ELSE (IF Head(ts).k = "rxbuf" THEN 1 ELSE 0) + RxBufTasks(Tail(ts))

\* The buffers of the first n packets of done
RECURSIVE BufCount(_, _)
BufCount(done, n) ==
    IF n = 0 THEN 0 ELSE Len(done[n]) + BufCount(done, n - 1)

\* The buffers the host has returned so far
Returned == BufCount(host.done, Len(host.done)) + Len(host.cur)

\* The buffers whose completion has been processed
Processed == Returned - U16(used_idx - vring.tail) - RxBufTasks(vring.tasks)

\* C10: for buffers b1..bn completed in used-ring order with num_buffers = n
\* in the header of b1, exactly one packet is enqueued, only once bn's
\* completion is processed, with n fragments in completion order of
\* lengths len1 - header_len, len2, ..., lenn, owning all n buffers; the
\* buffer completing next starts a new packet.
C10_Reassembly ==
    /\ Len(Enqueued) <= Len(host.done)
    /\ \A i \in 1 .. Len(Enqueued) :
          Enqueued[i] = ExpectedPacket(host.done[i])
    /\ LET k == Len(Enqueued)
           part == Processed - BufCount(host.done, k)
           nxt == IF k < Len(host.done) THEN host.done[k + 1] ELSE host.cur
       IN  /\ 0 <= part
           /\ part < (IF nxt = << >> THEN 1 ELSE rx.mem[nxt[1].buf])
           /\ rx.remaining_buffers =
                 IF part = 0 THEN 0 ELSE rx.mem[nxt[1].buf] - part
           /\ part > 0 => rx.deleters = SubSeq(BufsOf(nxt), 1, part)

\* A packet of two buffers and then one of one buffer have been enqueued.
C10_Witness ==
    /\ Len(Enqueued) = 2
    /\ Len(Enqueued[1].frags) = 2
    /\ Enqueued[1].frags[1].len = BufLen - header_len
    /\ Enqueued[1].dels = BufsOf(host.done[1])
    /\ Len(Enqueued[2].frags) = 1

\* C11 as stated: without VIRTIO_NET_F_MRG_RXBUF (header length 10) every
\* completed receive buffer yields exactly one enqueued packet of one
\* fragment, whatever the bytes at offsets 10..11 are.
C11_AsStated ==
    header_len = HdrLen =>
        /\ vring.fault = "none"
        /\ Len(Enqueued) = Processed
        /\ \A i \in 1 .. Len(Enqueued) :
              Enqueued[i] = ExpectedPacket(host.done[i])

\* C11, what the code does: with header length 10 a buffer whose bytes at
\* offsets 10..11 hold 1 yields one packet of one fragment when it starts a
\* packet.
C11_PlainWordOne ==
    [][(/\ header_len = HdrLen
        /\ pc = "idle"
        /\ vring.tasks # << >>
        /\ Head(vring.tasks).k = "rxbuf"
        /\ vring'.tasks = Tail(vring.tasks)
        /\ rx.remaining_buffers = 0
        /\ rx.mem[Head(vring.tasks).id] = 1)
       => /\ Len(Enqueued') = Len(Enqueued) + 1
          /\ Enqueued'[Len(Enqueued')] =
                [frags |-> << [buf |-> Head(vring.tasks).id,
                               off |-> HdrLen,
                               len |-> Head(vring.tasks).len - HdrLen] >>,
                 dels |-> << Head(vring.tasks).id >>]]_vars

\* With header length 10 two frames, the first with 2 at offsets 10..11,
\* have been merged into one packet of two fragments.
C11_Witness ==
    /\ header_len = HdrLen
    /\ Len(host.done) >= 2
    /\ Len(Enqueued) = 1
    /\ Len(Enqueued[1].frags) = 2
    /\ Processed = 2

\* Packet p has a chain in the ring that do_complete has not reclaimed
HasLiveChain(p) == \E c \in live : c.owner = p

\* The packet-destruction continuation of p is queued and has not run
TxDoneQueued(p) ==
    \E t \in SeqSet(vring.tasks) : t.k = "txdone" /\ t.id = p

\* C12: a transmitted packet is kept alive until the host has written the
\* used element for the head of its chain and do_complete has processed it:
\* it is released at most once, never while its chain is in the ring or
\* before the host returned it, and it is released once the continuation
\* do_complete queued has run; this holds whatever order the host returns
\* chains in and when descriptors are reused.
C12_PayloadLifetime ==
    \A p \in 1 .. MaxPkts :
        /\ pkts[p].released <= 1
        /\ pkts[p].released = 1 => pkts[p].acked /\ ~HasLiveChain(p)
        /\ TxDoneQueued(p) =>
              pkts[p].released = 0 /\ pkts[p].acked /\ ~HasLiveChain(p)
        /\ (pkts[p].acked /\ ~HasLiveChain(p) /\ ~TxDoneQueued(p)
            /\ vring.fault = "none")
              => pkts[p].released = 1

\* The second packet was returned first and has been released while the
\* host still holds the chain of the first, whose send() has resolved.
C12_Witness ==
    /\ pkts[2].released = 1
    /\ pkts[1].released = 0
    /\ pkts[1].st = "resolved"
    /\ ~pkts[1].acked
    /\ \E c \in live : c.owner = 1 /\ c.st = "taken"

\* The inputs of the header built in this state
CsumOn == txhdr.hw.tx_csum_offload
IsTcp == txhdr.oi.protocol = "tcp"
IsUdp == txhdr.oi.protocol = "udp"
LongerThanMtu == txhdr.len > txhdr.hw.mtu + EthHdrLen

\* C13: the header built by txq::post follows the table: all fields zero
\* when TX checksum offload is off; with it on, needs_csum = 1, csum_start
\* = eth + ip and csum_offset = 16 for TCP, 6 for UDP; the gso fields are
\* tcpv4 / eth+ip+tcp / mtu-ip-tcp (udp / eth+ip+udp / mtu-ip-udp) exactly
\* when TSO (UFO) is enabled and the packet is strictly longer than mtu +
\* eth, and none / 0 / 0 otherwise.
C13_HeaderTable ==
    txhdr.built =>
        LET v == txhdr.vhdr
            ip == txhdr.oi.ip_hdr_len
            tso == IsTcp /\ txhdr.hw.tx_tso /\ LongerThanMtu
            ufo == IsUdp /\ txhdr.hw.tx_ufo /\ LongerThanMtu
        IN  /\ ~CsumOn => v = ZeroHdr
            /\ (CsumOn /\ (IsTcp \/ IsUdp)) =>
                  /\ v.needs_csum = 1
                  /\ v.csum_start = EthHdrLen + ip
                  /\ v.csum_offset = IF IsTcp THEN 16 ELSE 6
                  /\ tso => /\ v.gso_type = gso_tcpv4
                            /\ v.hdr_len = EthHdrLen + ip
                                               + txhdr.oi.tcp_hdr_len
                            /\ v.gso_size = txhdr.hw.mtu - ip
                                               - txhdr.oi.tcp_hdr_len
                  /\ ufo => /\ v.gso_type = gso_udp
                            /\ v.hdr_len = EthHdrLen + ip
                                               + txhdr.oi.udp_hdr_len
                            /\ v.gso_size = txhdr.hw.mtu - ip
                                               - txhdr.oi.udp_hdr_len
                  /\ ~(tso \/ ufo) => /\ v.gso_type = gso_none
                                      /\ v.hdr_len = 0
                                      /\ v.gso_size = 0

\* A UDP packet one byte longer than mtu + eth got the UFO fields, with
\* every offload on.
C13_Witness ==
    /\ txhdr.built
    /\ CsumOn /\ txhdr.hw.tx_tso /\ txhdr.hw.tx_ufo
    /\ IsUdp
    /\ txhdr.len = txhdr.hw.mtu + EthHdrLen + 1
    /\ txhdr.vhdr.gso_type = gso_udp

\* The TSO scenario: checksum offload and TSO on, mtu 1500, a TCP frame of
\* 5000 bytes with 20-byte IP and TCP headers
TsoScenario ==
    /\ txhdr.built
    /\ CsumOn /\ txhdr.hw.tx_tso /\ txhdr.hw.mtu = 1500
    /\ IsTcp /\ txhdr.len = 5000
    /\ txhdr.oi.ip_hdr_len = 20 /\ txhdr.oi.tcp_hdr_len = 20

\* C14 as stated: the TSO scenario produces the header {needs_csum = 1,
\* csum_start = 34, csum_offset = 16, gso_type = tcpv4, hdr_len = 54,
\* gso_size = 1448}.
C14_AsStated ==
    TsoScenario =>
        txhdr.vhdr = [needs_csum |-> 1, csum_start |-> 34,
                      csum_offset |-> 16, gso_type |-> gso_tcpv4,
                      hdr_len |-> 54, gso_size |-> 1448]

\* C14, amended: the TSO scenario produces the header {needs_csum = 1,
\* csum_start = 34, csum_offset = 16, gso_type = tcpv4, hdr_len = 54,
\* gso_size = 1460}, gso_size being mtu - ip - tcp = 1500 - 20 - 20.
C14_TsoScenario ==
    TsoScenario =>
        txhdr.vhdr = [needs_csum |-> 1, csum_start |-> 34,
                      csum_offset |-> 16, gso_type |-> gso_tcpv4,
                      hdr_len |-> 54, gso_size |-> 1460]

C14_Witness == TsoScenario /\ txhdr.vhdr.gso_size = 1460

\* The UFO scenario: checksum offload and UFO on, mtu 1500, a UDP frame of
\* 3000 bytes with a 20-byte IP and an 8-byte UDP header
UfoScenario ==
    /\ txhdr.built
    /\ CsumOn /\ txhdr.hw.tx_ufo /\ txhdr.hw.mtu = 1500
    /\ IsUdp /\ txhdr.len = 3000
    /\ txhdr.oi.ip_hdr_len = 20 /\ txhdr.oi.udp_hdr_len = 8

\* C15 as stated: the UFO scenario produces the header {needs_csum = 1,
\* csum_start = 34, csum_offset = 6, gso_type = udp, hdr_len = 42,
\* gso_size = 1450}.
C15_AsStated ==
    UfoScenario =>
        txhdr.vhdr = [needs_csum |-> 1, csum_start |-> 34,
                      csum_offset |-> 6, gso_type |-> gso_udp,
                      hdr_len |-> 42, gso_size |-> 1450]

\* C15, amended: the UFO scenario produces the header {needs_csum = 1,
\* csum_start = 34, csum_offset = 6, gso_type = udp, hdr_len = 42,
\* gso_size = 1472}, gso_size being mtu - ip - udp = 1500 - 20 - 8.
C15_UfoScenario ==
    UfoScenario =>
        txhdr.vhdr = [needs_csum |-> 1, csum_start |-> 34,
                      csum_offset |-> 6, gso_type |-> gso_udp,
                      hdr_len |-> 42, gso_size |-> 1472]

C15_Witness == UfoScenario /\ txhdr.vhdr.gso_size = 1472

TxShape(c) ==
    LET k == pkts[c.owner].frags
        ch == ChainOf(vring, c.head, Size + 1)
    IN  /\ Len(ch) = k + 1
        /\ ch = c.ds
        /\ \A i \in 1 .. Len(ch) :
              /\ ~vring.descs[ch[i]].writeable
              /\ vring.descs[ch[i]].paddr = 16 * c.owner + (i - 1)
              /\ vring.descs[ch[i]].len = IF i = 1 THEN header_len
                                          ELSE FragLen
              /\ vring.descs[ch[i]].has_next = (i < Len(ch))
              /\ i < Len(ch) => vring.descs[ch[i]].next = ch[i + 1]
        /\ c.st \in {"built", "avail"} => vring.ring[masked(c.seq)] = c.head

\* At most one chain per packet, each of the posted shape
C17_Shape ==
    \A c \in live :
        /\ TxShape(c)
        /\ \A d \in live : d.owner = c.owner => d = c

\* Posting packet p takes k + 1 permits, at once or as a waiter, and k + 1
\* descriptors from the pool for one new chain; reclaiming the chain
\* returns its k + 1 descriptors to the pool.
C17_Step ==
    /\ \A p \in 1 .. MaxPkts :
          LET k == pkts'[p].frags
          IN  /\ (pkts[p].st = "unsent" /\ pkts'[p].st = "posting") =>
                    vring'.sem = vring.sem - (k + 1)
              /\ (pkts[p].st = "unsent" /\ pkts'[p].st = "waiting") =>
                    /\ vring'.sem = vring.sem
                    /\ vring.sem < k + 1 \/ vring.waiters # << >>
                    /\ vring'.waiters =
                          Append(vring.waiters,
                                 [k |-> "send", id |-> p, nr |-> k + 1])
              /\ (pkts[p].st # "posting" /\ pkts'[p].st = "posting") =>
                    /\ Len(FreeList(vring')) = Len(FreeList(vring)) - (k + 1)
                    /\ vring'.head = U16(vring.head + 1)
                    /\ \E c \in live' :
                          /\ live' = live \cup {c}
                          /\ c \notin live
                          /\ c.owner = p
                          /\ c.seq = vring.head
    /\ \A c \in live \ live' :
          (c.st = "used" /\ pc = "dc_drain") =>
             /\ Len(FreeList(vring')) =
                   Len(FreeList(vring)) + pkts[c.owner].frags + 1
             /\ SeqSet(c.ds) \subseteq SeqSet(FreeList(vring'))

\* C17: for a packet of k payload fragments send acquires k + 1 permits and
\* publishes exactly one chain of k + 1 read-only descriptors linked by
\* HAS_NEXT/next in fragment order, whose head, the index stored in the
\* available ring, is the descriptor of the virtio-net header and whose
\* last descriptor has HAS_NEXT clear; when the host has written the used
\* element for the head, all k + 1 descriptors return to the pool.
C17_PostingShape == [] C17_Shape /\ [][C17_Step]_vars

\* A packet of two fragments was posted as a chain of three descriptors
\* after it waited for permits, the host returned it, and the pool has all
\* its descriptors again.
C17_Witness ==
    /\ pkts[2].frags = 2
    /\ pkts[2].waited
    /\ pkts[2].acked
    /\ ~HasLiveChain(2)
    /\ pkts[1].released = 1
    /\ Len(FreeList(vring)) = Size

\* The most recent kick() has returned and no later post has counted a chain
AfterKick == last_kick.called /\ pc \notin {"publish", "kick"}

RxBufRuns ==
    /\ pc = "idle"
    /\ rx.started
    /\ vring.tasks # << >>
    /\ Head(vring.tasks).k = "rxbuf"
    /\ vring'.tasks = Tail(vring.tasks)

\* What reassembly and delivery have built so far
RxProgress ==
    << rx.remaining_buffers, rx.fragments, rx.deleters, rx.pending,
       rx.delivered >>

\* C19: a receive buffer that completes as the first buffer of a packet
\* (remaining_buffers = 0) with num_buffers = 0 in its header aborts: no
\* fragment is appended, no packet is enqueued, remaining_buffers stays 0,
\* and nothing is reassembled or delivered after the abort.
C19_ZeroBuffersAborts ==
    [][/\ (/\ RxBufRuns
           /\ rx.remaining_buffers = 0
           /\ rx.mem[Head(vring.tasks).id] = 0)
          => /\ pc' = "aborted"
             /\ vring'.fault = "assert"
             /\ RxProgress' = RxProgress
       /\ pc = "aborted" => pc' = "aborted" /\ RxProgress' = RxProgress]_vars

\* With merged buffers negotiated one packet was delivered, then a first
\* buffer with num_buffers = 0 stopped the driver.
C19_Witness ==
    /\ header_len = HdrLenMrg
    /\ pc = "aborted"
    /\ vring.fault = "assert"
    /\ Len(rx.delivered) = 1
    /\ rx.remaining_buffers = 0
    /\ Processed = 2
    /\ rx.mem[host.done[2][1].buf] = 0

\* Every packet assembled so far, in the order of assembly: passed to the
\* stream, skipped after the failure, or still chained
Assembled == rx.delivered \o rx.dropped \o rx.pending

\* C20: once a delivery future in the _rx_ready chain has failed, every
\* packet assembled afterwards, and every packet chained behind the failed
\* delivery, is never passed to the RX stream; the packets passed before
\* are the first packets the host sent, in order.
C20_Halted ==
    /\ Len(Assembled) <= Len(host.done)
    /\ \A i \in 1 .. Len(Assembled) :
          Assembled[i] = ExpectedPacket(host.done[i])
    /\ rx.dropped # << >> => rx.failed
    /\ rx.failed => ~rx.busy /\ rx.delivered # << >>

C20_Step ==
    rx.failed => /\ rx'.failed
                 /\ rx'.delivered = rx.delivered
                 /\ Len(rx'.dropped) + Len(rx'.pending)
                       >= Len(rx.dropped) + Len(rx.pending)

C20_FailureHaltsDelivery == [] C20_Halted /\ [][C20_Step]_vars

\* The delivery of the first packet failed while the second was chained
\* behind it; the second and the third, assembled after the failure, were
\* both skipped.
C20_Witness ==
    /\ rx.failed
    /\ rx.chained
    /\ Len(rx.delivered) = 1
    /\ Len(rx.dropped) = 2
    /\ rx.pending = << >>

\* The continuation of prepare_buffers runs in this step, at once or after
\* it waited for its permit
RefillRuns == rx.refill \in {"ready", "waiting"} /\ rx'.refill = "posting"

\* The permits still in the semaphore once wait(1) has taken its one
LeftAfterWait == IF rx.refill = "ready" THEN vring.sem - 1 ELSE vring.sem

\* Chain c is one writeable descriptor of BufLen bytes of buffer c.owner
\* with the buffer's continuation as its completion, installed at position
\* c.seq of the ring
RxShape(s, c) ==
    /\ Len(c.ds) = 1
    /\ c.head = c.ds[1]
    /\ s.descs[c.head].writeable
    /\ ~s.descs[c.head].has_next
    /\ s.descs[c.head].len = BufLen
    /\ s.descs[c.head].paddr = c.owner
    /\ s.completions[c.head] = [k |-> "rx", id |-> c.owner]
    /\ s.ring[masked(c.seq)] = c.head

PermitsSpent ==
    (vring.sem + SumPermits(vring.tasks))
        - (vring'.sem + SumPermits(vring'.tasks))

\* No allocation has failed, and the permits in the semaphore plus the
\* permits granted to continuations that have not allocated yet are as many
\* as the free list has descriptors.
C22_PermitsMatchPool ==
    /\ vring.fault = "none"
    /\ vring.sem >= 0
    /\ vring.sem + HeldPermits = FreeCount

\* A step that allocates finds at least as many descriptors on the free
\* list as it allocates, and allocates as many as it has permits for.
C22_Step ==
    PermitsSpent > 0 =>
        /\ PermitsSpent <= Len(FreeList(vring))
        /\ Len(FreeList(vring')) = Len(FreeList(vring)) - PermitsSpent
        /\ vring'.free_desc \in Descs \/ Len(FreeList(vring')) = 0

Outstanding == U16(vring.head - vring.tail)

\* C23 as stated: (uint16)(_avail._head - _used._tail) is at most size, and
\* no slot of the available ring whose chain the host has not returned yet
\* has been overwritten by a later post.
C23_AsStated ==
    /\ Outstanding <= Size
    /\ \A c \in live :
          c.st \in {"built", "avail", "taken"}
              => vring.ring[masked(c.seq)] = c.head

\* C23, amended: (uint16)(_avail._head - _used._tail) is at most size, also
\* across the wrap of the counters, and no slot of the available ring that
\* the host has not read yet has been overwritten by a later post; the slot
\* of a chain the host has read and not returned yet may be reused.
C23_NoOverrun ==
    /\ Outstanding <= Size
    /\ Outstanding <= Cardinality(live)
    /\ U16(vring.head - host.avail) <= Size
    /\ \A c \in live :
          c.st \in {"built", "avail"} => vring.ring[masked(c.seq)] = c.head
    /\ \A c, d \in live :
          (/\ c.st \in {"built", "avail"}
           /\ d.st \in {"built", "avail"}
           /\ masked(d.seq) = masked(c.seq))
              => d = c

\* The fifth post, past the wrap of _head, has taken the slot of the first
\* chain, which the host has read and still holds.
C23_Witness ==
    /\ vring.head = 2
    /\ \E c, d \in live :
          /\ c.seq = 65533 /\ c.st = "taken"
          /\ d.seq = 1 /\ d.st = "avail"
          /\ masked(c.seq) = masked(d.seq)
          /\ vring.ring[masked(d.seq)] = d.head
          /\ d.head # c.head

\* C24 as stated: _free_desc is the empty sentinel -1 exactly when no
\* descriptor is free, so that the assertion of allocate_desc detects an
\* allocation from an exhausted pool.
C24_AsStated == FreeCount = 0 <=> vring.free_desc = -1

\* C24, what the code does: the -1 that setup() stores in the 16-bit _next
\* of the first descriptor freed comes back as 65535, so _free_desc is
\* 65535 exactly when no descriptor is free, and never -1 after setup().
C24_SentinelTruncated ==
    /\ vring.free_desc # -1
    /\ FreeCount = 0 <=> vring.free_desc = 65535
    /\ FreeCount > 0 => vring.free_desc \in Descs

\* Every descriptor of the ring is allocated to a chain in flight and
\* _free_desc is 65535.
C24_Witness ==
    /\ FreeCount = 0
    /\ InFlight = Size
    /\ vring.free_desc = 65535
    /\ vring.fault = "none"

====
